---------------------------- MODULE Spec2Model ----------------------------
(***************************************************************************)
(* A model of the query cache manager of src/cache/cache_manager.py:       *)
(* QueryCacheManager (the pool, the live CacheConfig, check_cache,         *)
(* add_to_cache, update_config, initialize, _load_config, get_connection)  *)
(* run by concurrent asyncio tasks against one database.                   *)
(*                                                                         *)
(* Every `await` of the source is one step of a task; the code between two *)
(* awaits runs inside the step that ends the first one.  A task is a call  *)
(* stack of frames; an exception unwinds it to the nearest `except`.       *)
(*                                                                         *)
(* The stored procedures the manager calls (find_similar_cached_query,     *)
(* get_cached_answer_details, record_cache_hit, add_cache_entry) live in   *)
(* fastapi-cache-module.sql, which is not among the source files; they are *)
(* modelled from spec.md sections 4.2, 4.3 and 6.                          *)
(*                                                                         *)
(* Similarity scores and thresholds are in hundredths (0.85 is 85).        *)
(***************************************************************************)
EXTENDS Integers, Sequences, FiniteSets, TLC

\* ------------------------------------------------------------------ bounds

\* Request-handling tasks, each making one call of the manager; the calls run
\* concurrently or one after another.
NumTasks == 2

\* Store calls that fail in one run.
MaxFailures == 1

\* pool_size handed to QueryCacheManager(database_url, pool_size).
PoolSize == 2

\* Historical Q&A pairs the conversation store comes to hold.
NumPairs == 2

Tasks == 1 .. NumTasks

\* -------------------------------------------------------- program constants

\* CacheConfig.similarity_threshold = 0.85
DefaultThreshold == 85

\* CacheConfig.max_cache_entries = 5000
DefaultMaxEntries == 5000

\* self._pool = None
NoPool == 0

\* similarity_threshold: Optional[float] = None
NoOverride == -1

\* CacheConfig(): similarity_threshold 0.85, cache_enabled True, max 5000
DefaultConfig ==
    [present |-> TRUE, thr |-> DefaultThreshold, enabled |-> TRUE,
     max |-> DefaultMaxEntries]

\* self._config = None
NoConfig == [present |-> FALSE, thr |-> 0, enabled |-> FALSE, max |-> 0]

\* ----------------------------------------------------- config keys, values

\* The annotated fields of CacheConfig.
FieldKeys == {"similarity_threshold", "cache_enabled", "max_cache_entries"}

\* Names that are attributes of the class object CacheConfig.  The module
\* imports ConfigDict, which only pydantic 2 has, and pydantic 2 removes every
\* annotated field from the class namespace when it builds the model class
\* (the defaults move to model_fields), so the three field names are no class
\* attributes; model_config (set in the class body) and the members inherited
\* from BaseModel, such as model_fields, are.
ClassAttrKeys == {"model_config", "model_fields"}

\* A key that names nothing.
UnknownKeys == {"bogus"}

\* hasattr(CacheConfig, key)
hasattr_CacheConfig(key) == key \in ClassAttrKeys

\* A key with no row in askwealth.query_cache_config.
Absent == "<absent>"

\* str(value) of the values update_config is handed: 0.5, False, 1, 'x'.
PyValues == {"float:50", "bool:False", "int:1", "str:x"}

str(value) ==
    CASE value = "float:50" -> "0.5"
      [] value = "bool:False" -> "False"
      [] value = "int:1" -> "1"
      [] OTHER -> "x"

\* float(s): the strings that are float literals, in hundredths; -1 stands for
\* ValueError.
ParseError == -1

float(s) ==
    CASE s = "0.85" -> 85
      [] s = "0.9" -> 90
      [] s = "0.5" -> 50
      [] s = "1" -> 100
      [] s = "2" -> 200
      [] OTHER -> ParseError

\* int(s): ValueError on anything that is not an integer literal.
int(s) ==
    CASE s = "1" -> 1
      [] s = "2" -> 2
      [] s = "5000" -> 5000
      [] OTHER -> ParseError

\* s.lower()
lower(s) ==
    CASE s = "True" -> "true"
      [] s = "TRUE" -> "true"
      [] s = "False" -> "false"
      [] OTHER -> s

\* The rows of askwealth.query_cache_config a database may hold when the
\* manager is constructed: none, the usual three, the cache switched off, a
\* threshold that is no number.
ConfigKeys == FieldKeys \cup ClassAttrKeys

NoRows == [k \in ConfigKeys |-> Absent]

DbConfigs ==
    { NoRows,
      [NoRows EXCEPT !["similarity_threshold"] = "0.9",
                     !["cache_enabled"] = "true",
                     !["max_cache_entries"] = "2"],
      [NoRows EXCEPT !["similarity_threshold"] = "0.5",
                     !["cache_enabled"] = "False",
                     !["max_cache_entries"] = "2"],
      [NoRows EXCEPT !["similarity_threshold"] = "abc",
                     !["cache_enabled"] = "True",
                     !["max_cache_entries"] = "2"] }

\* The body of _load_config's try block after the fetch: the CacheConfig built
\* from the rows, or NoConfig when float() or int() raises ValueError.
ParseConfig(rows) ==
    LET t == IF rows["similarity_threshold"] = Absent
             THEN DefaultThreshold
             ELSE float(rows["similarity_threshold"])
        e == lower(IF rows["cache_enabled"] = Absent
                   THEN "true"
                   ELSE rows["cache_enabled"]) = "true"
        m == IF rows["max_cache_entries"] = Absent
             THEN DefaultMaxEntries
             ELSE int(rows["max_cache_entries"])
    IN  IF t = ParseError \/ m = ParseError
        THEN NoConfig
        ELSE [present |-> TRUE, thr |-> t, enabled |-> e, max |-> m]

\* ------------------------------------------------------------ embeddings

\* Query and entry embeddings; 0 is a NULL embedding (a pending entry).
Embeddings == {1, 2}

NullEmbedding == 0

Abs(x) == IF x < 0 THEN -x ELSE x

\* The similarity score of two embeddings: 1.00 for equal ones, 0.85 for
\* neighbours.
Sim(a, b) == 100 - 15 * Abs(a - b)

\* Embeddings whose dimension is not the one the store's vector column has.
MisDimensioned == {9}

\* The store takes an embedding of the configured dimension only: the search
\* and the insert of any other one raise.
DimensionOk(q) == q \notin MisDimensioned

\* The override values a caller passes to check_cache.
Overrides == {NoOverride, 0, 90}


\* ------------------------------------------------------------------ state

VARIABLES
    pool,       \* self._pool: NoPool or the id of the pool it refers to
    nextPool,   \* the id the next asyncpg.create_pool returns
    config,     \* self._config: NoConfig or the live CacheConfig
    dbConfig,   \* askwealth.query_cache_config: key -> value string
    entries,    \* askwealth.query_cache_embeddings: entry id -> row
    tick,       \* the database clock, one tick per recorded hit
    tasks,      \* task -> its call: position, stack, locals, result
    failures,   \* store calls that failed
    pairs       \* the conversation store: ids of the historical Q&A pairs

vars ==
    << pool, nextPool, config, dbConfig, entries, tick, tasks, failures,
       pairs >>

\* ---------------------------------------------------------------- entries

\* A row of query_cache_embeddings.  The id is the creation order; pair is the
\* historical Q&A pair a backfilled row was made from (0 for a row made by
\* add_to_cache); a deleted row stays in the sequence with alive false.
Entry(emb, hits) ==
    [emb |-> emb, hits |-> hits, lastHit |-> IF hits > 0 THEN 1 ELSE 0,
     alive |-> TRUE, pair |-> 0]

\* A backfilled row: no embedding yet, never hit.
Pending(pair) == [Entry(NullEmbedding, 0) EXCEPT !.pair = pair]

\* The historical Q&A pairs the conversation store holds at the start.
InitialPairs == {1}

\* The tables a database may hold when the manager is constructed: empty, one
\* entry never hit, an entry hit three times beside a backfilled pending one.
InitialEntries ==
    { << >>,
      << Entry(1, 0) >>,
      << Entry(1, 3), Pending(1) >> }

Ids(es) == DOMAIN es

\* cache_row of check_cache: the row find_similar_cached_query returns.
NoRow == [id |-> 0, score |-> 0, hits |-> 0]

\* askwealth.find_similar_cached_query(embedding, threshold): the best-scoring
\* entry that has an embedding and scores at least the threshold; equal scores
\* go to the larger hit count, then to the entry created last.
Matches(es, q, threshold) ==
    { i \in Ids(es) : /\ es[i].alive
                      /\ es[i].emb # NullEmbedding
                      /\ Sim(q, es[i].emb) >= threshold }

Outranks(es, q, i, j) ==
    \/ Sim(q, es[i].emb) > Sim(q, es[j].emb)
    \/ /\ Sim(q, es[i].emb) = Sim(q, es[j].emb)
       /\ \/ es[i].hits > es[j].hits
          \/ es[i].hits = es[j].hits /\ i >= j

find_similar_cached_query(es, q, threshold) ==
    LET m == Matches(es, q, threshold)
    IN  IF m = {}
        THEN NoRow
        ELSE LET b == CHOOSE i \in m : \A j \in m : Outranks(es, q, i, j)
             IN  [id |-> b, score |-> Sim(q, es[b].emb), hits |-> es[b].hits]

\* askwealth.record_cache_hit(cache_id): one atomic increment of the entry's
\* counter, stamping the time of the hit.
record_cache_hit(es, id, now) ==
    [es EXCEPT ![id].hits = @ + 1, ![id].lastHit = now]

\* askwealth.record_cache_hit(cache_id) fails (raises) when the entry no
\* longer exists.
EntryGone(es, id) == ~es[id].alive

\* askwealth.add_cache_entry(...): a new row, never hit, with its embedding.
add_cache_entry(es, emb) == Append(es, Entry(emb, 0))

\* The max_cache_entries askwealth.cleanup_cache() enforces.  The manager
\* hands it no argument (`SELECT askwealth.cleanup_cache()`), so it is the
\* value the config table holds, 5000 without a row.
PersistedMax(rows) ==
    IF rows["max_cache_entries"] = Absent
    THEN DefaultMaxEntries
    ELSE int(rows["max_cache_entries"])

\* The entries that count against the capacity: those with an embedding.
NonPending(es) ==
    { i \in Ids(es) : es[i].alive /\ es[i].emb # NullEmbedding }

\* Plain least-recently-used order: the hit count plays no part.
WorseOrEqual_recency_only(es, i, j) ==
    \/ es[i].lastHit < es[j].lastHit
    \/ es[i].lastHit = es[j].lastHit /\ i <= j

\* Entry i is removed no later than entry j: fewer hits first, then the one
\* hit longer ago, entries never hit by age (the id is the creation order).
WorseOrEqual(es, i, j) ==
    \/ es[i].hits < es[j].hits
    \/ /\ es[i].hits = es[j].hits
       /\ \/ es[i].lastHit < es[j].lastHit
          \/ es[i].lastHit = es[j].lastHit /\ i <= j

\* The entries a cleanup removes: none while the non-pending entries are at
\* most max, else the total - max worst of them.
Evicted(es, max) ==
    LET c == NonPending(es)
        excess == Cardinality(c) - max
    IN  { i \in c :
            Cardinality({ j \in c : WorseOrEqual(es, j, i) }) <= excess }

\* askwealth.cleanup_cache(): hard-deletes the entries and returns their
\* number.
askwealth_cleanup_cache(es, max) ==
    [entries |-> [i \in DOMAIN es |->
                    IF i \in Evicted(es, max)
                    THEN [es[i] EXCEPT !.alive = FALSE]
                    ELSE es[i]],
     count |-> Cardinality(Evicted(es, max))]

\* The backfill without its uniqueness test: an entry for every pair.
Unfilled_unchecked(es, ps) == ps

\* The historical pairs no entry has been made from.
Unfilled(es, ps) ==
    { p \in ps : ~ \E i \in Ids(es) : es[i].alive /\ es[i].pair = p }

RECURSIVE AppendPending(_, _)
AppendPending(es, ps) ==
    IF ps = {} THEN es
    ELSE LET p == CHOOSE x \in ps : \A y \in ps : x <= y
         IN  AppendPending(Append(es, Pending(p)), ps \ {p})

\* askwealth.populate_cache_from_existing(): one pending entry for every
\* historical pair that has none (the pair's id is unique among the entries);
\* returns the number inserted.
askwealth_populate_cache_from_existing(es, ps) ==
    [entries |-> AppendPending(es, Unfilled(es, ps)),
     count |-> Cardinality(Unfilled(es, ps))]

\* ------------------------------------------------------------------ tasks

\* A frame of a task's call stack.  kind names the function; a get_connection
\* frame ("gc") carries the label its `async with` body starts at and whether
\* it has yielded a connection, which it releases when it is left.
Frame(kind) == [kind |-> kind, ret |-> "", held |-> FALSE]

GcFrame(ret) == [kind |-> "gc", ret |-> ret, held |-> FALSE]

\* The value a call returned.
Unset == [kind |-> "unset", id |-> 0, score |-> 0, hits |-> 0]

None == [kind |-> "None", id |-> 0, score |-> 0, hits |-> 0]

Raised == [kind |-> "raised", id |-> 0, score |-> 0, hits |-> 0]

Returned(kind) == [kind |-> kind, id |-> 0, score |-> 0, hits |-> 0]

\* CacheHit(cache_id=..., similarity_score=..., cache_hits=cache_row[...])
CacheHit(row) ==
    [kind |-> "CacheHit", id |-> row.id, score |-> row.score, hits |-> row.hits]

EntryId(id) == [kind |-> "id", id |-> id, score |-> 0, hits |-> 0]

\* The int cleanup_cache and populate_from_existing return.
Count(n) == [kind |-> "int", id |-> n, score |-> 0, hits |-> 0]

\* The {} get_cache_stats returns from its except clause.
Empty == [kind |-> "{}", id |-> 0, score |-> 0, hits |-> 0]

\* dict(stats): total_entries, entries_with_embeddings, entries_with_hits.
Stats(es) ==
    [kind |-> "stats",
     id |-> Cardinality({ i \in Ids(es) : es[i].alive }),
     score |-> Cardinality(NonPending(es)),
     hits |-> Cardinality({ i \in Ids(es) : es[i].alive /\ es[i].hits > 0 })]

\* A task that is running no call.
Idle ==
    [ pc |-> "idle", op |-> "none", stack |-> << >>, conns |-> << >>,
      acq |-> NoPool, emb |-> 0, ovr |-> NoOverride, threshold |-> 0,
      row |-> NoRow, batch |-> << >>, i |-> 0, res |-> Unset,
      \* history of the call, read by the properties only
      failed |-> FALSE, failedAt |-> "", preDb |-> NoRows,
      preConfig |-> NoConfig, reach |-> FALSE, answer |-> "",
      recorded |-> FALSE, newCount |-> 0, preEntries |-> << >>,
      \* history of process_query_with_cache: what check_cache returned to it,
      \* the calls of llm_processor_func and of add_to_cache it made, and the
      \* answer of its response
      seen |-> Unset, llm |-> 0, adds |-> 0, out |-> "" ]

Last(s) == s[Len(s)]

Front(s) == SubSeq(s, 1, Len(s) - 1)

\* Connections of pool p that tasks hold.
RECURSIVE CountIn(_, _)
CountIn(s, p) ==
    IF s = << >> THEN 0
    ELSE (IF Last(s) = p THEN 1 ELSE 0) + CountIn(Front(s), p)

RECURSIVE HeldBy(_, _, _)
HeldBy(ts, S, p) ==
    IF S = {} THEN 0
    ELSE LET t == CHOOSE x \in S : TRUE
         IN  CountIn(ts[t].conns, p) + HeldBy(ts, S \ {t}, p)

Held(p) == HeldBy(tasks, Tasks, p)


\* ----------------------------------------------------------- control flow

\* The effective threshold as spec.md 4.2 step 2 resolves it: the override if
\* one is given, else the policy's.  The properties compare the code with it.
EffectiveThreshold(similarity_threshold, cfg) ==
    IF similarity_threshold # NoOverride THEN similarity_threshold ELSE cfg.thr

\* threshold = similarity_threshold or self._config.similarity_threshold
Threshold(similarity_threshold, cfg) ==
    IF similarity_threshold # NoOverride /\ similarity_threshold # 0
    THEN similarity_threshold
    ELSE cfg.thr

\* The gate with its second test left out.
Gated_config_only(cfg) == ~cfg.present

\* The gate of check_cache and add_to_cache:
\* if not self._config or not self._config.cache_enabled: return None
Gated(cfg) == ~cfg.present \/ ~cfg.enabled

\* check_cache without its except clause.
except_result_unguarded_check(kind) ==
    CASE kind = "add" -> None
      [] kind = "update" -> Returned("False")
      [] kind = "stats" -> Empty
      [] kind = "cleanup" -> Count(0)
      [] kind = "populate" -> Count(0)
      [] kind = "setup_populate" -> Count(0)
      [] OTHER -> Unset

\* get_cache_stats without its except clause.
except_result_unguarded_stats(kind) ==
    CASE kind = "check" -> None
      [] kind = "add" -> None
      [] kind = "update" -> Returned("False")
      [] kind = "cleanup" -> Count(0)
      [] kind = "populate" -> Count(0)
      [] kind = "setup_populate" -> Count(0)
      [] OTHER -> Unset

\* What the except clause of a function returns; Unset for a function that
\* has none (initialize, get_connection), which lets the exception through.
\* _load_config's clause installs CacheConfig() and returns normally.
except_result(kind) ==
    CASE kind = "check" -> None
      [] kind = "add" -> None
      [] kind = "update" -> Returned("False")
      [] kind = "stats" -> Empty
      [] kind = "cleanup" -> Count(0)
      [] kind = "populate" -> Count(0)
      [] kind = "setup_populate" -> Count(0)
      [] OTHER -> Unset

\* CachedResponse(answer=..., source=..., cache_id=..., similarity_score=...,
\* cache_hits=...), the answer apart.
CachedResponse(source, id, score, hits) ==
    [kind |-> source, id |-> id, score |-> score, hits |-> hits]

\* The answer llm_processor_func returns: llm_result["answer"].
LlmAnswer == "llm"

\* process_query_with_cache running the pipeline whatever check_cache returned.
process_query_with_cache_resume_always_llm(s, value) ==
    LET callee == s.stack[2].kind
        s1 == [s EXCEPT !.stack = << s.stack[1] >>]
    IN  IF callee = "check"
        THEN [s1 EXCEPT !.seen = value, !.llm = @ + 1, !.pc = "llm"]
        ELSE [s1 EXCEPT !.pc = "done", !.stack = << >>, !.out = LlmAnswer,
                        !.res = CachedResponse("llm", value.id, 0, 0)]

\* process_query_with_cache going on when the call it awaits returns value.
\* From check_cache: `if cache_hit:` returns the response built from the hit,
\* else llm_processor_func is called and awaited.  From add_to_cache: the
\* response of the pipeline is returned, cache_id being what add_to_cache
\* returned (None as 0).
process_query_with_cache_resume(s, value) ==
    LET callee == s.stack[2].kind
        s1 == [s EXCEPT !.stack = << s.stack[1] >>]
    IN  IF callee = "check"
        THEN IF value.kind = "CacheHit"
             THEN [s1 EXCEPT !.seen = value, !.pc = "done", !.stack = << >>,
                             !.out = s.answer,
                             !.res = CachedResponse("cache", value.id,
                                                    value.score, value.hits + 1)]
             ELSE [s1 EXCEPT !.seen = value, !.llm = @ + 1, !.pc = "llm"]
        ELSE [s1 EXCEPT !.pc = "done", !.stack = << >>, !.out = LlmAnswer,
                        !.res = CachedResponse("llm", value.id, 0, 0)]

\* `return value` of the function on top of the stack: to
\* process_query_with_cache when that is what called it, else to the caller
\* of the call the task is running.
Finish(s, value) ==
    IF Len(s.stack) >= 2 /\ s.stack[1].kind = "process"
    THEN process_query_with_cache_resume(s, value)
    ELSE [s EXCEPT !.pc = "done", !.stack = << >>, !.res = value]

\* get_connection leaving its frame without handing the connection back.
LeaveConn_keeping(s) == [s EXCEPT !.stack = Front(@)]

\* Leaving the `async with self._pool.acquire()` of the get_connection frame on
\* top of the stack: the connection it yielded goes back to its pool.
LeaveConn(s) ==
    [s EXCEPT !.stack = Front(@),
              !.conns = IF Last(s.stack).held THEN Front(@) ELSE @]

\* `async with self.get_connection() as conn:` with p the value of self._pool.
\* Without a pool get_connection awaits initialize(), which awaits
\* asyncpg.create_pool; with one it awaits self._pool.acquire().
EnterConn(s, ret, p) ==
    IF p = NoPool
    THEN [s EXCEPT !.stack = Append(Append(@, GcFrame(ret)), Frame("init")),
                   !.pc = "create_pool"]
    ELSE [s EXCEPT !.stack = Append(@, GcFrame(ret)),
                   !.pc = "acquire", !.acq = p]

RECURSIVE Unwind(_, _)
RECURSIVE LoadReturn(_, _)

\* _load_config returns to its caller (the frame under the "load" frame on top
\* of the stack), with p the value of self._pool.  initialize() then returns
\* too: to the caller of initialize(), or to get_connection, which goes on to
\* self._pool.acquire() (an AttributeError when the pool is None again).
\* update_config, which called it inside its own `async with`, returns True.
\* The result is the task and whether an except clause of _load_config ran.
LoadReturn(s, p) ==
    LET s1 == [s EXCEPT !.stack = Front(@)]
        top == Last(s1.stack)
    IN  IF top.kind = "init"
        THEN LET s2 == [s1 EXCEPT !.stack = Front(@)]
             IN  IF s2.stack = << >>
                 THEN [task |-> Finish(s2, Returned("ok")), defaults |-> FALSE]
                 ELSE IF p = NoPool
                      THEN Unwind([s2 EXCEPT !.failed = TRUE], p)
                      ELSE [task |-> [s2 EXCEPT !.pc = "acquire", !.acq = p],
                            defaults |-> FALSE]
        ELSE [task |-> Finish(LeaveConn(s1), Returned("True")),
              defaults |-> FALSE]

\* An exception raised in the frame on top of the stack: every frame without
\* an except clause is left (a get_connection frame releasing its connection)
\* until one has one; with none left the exception reaches the caller.
Unwind(s, p) ==
    IF s.stack = << >>
    THEN [task |-> Finish(s, Raised), defaults |-> FALSE]
    ELSE LET top == Last(s.stack)
         IN  IF top.kind = "load"
             THEN [task |-> LoadReturn(s, p).task, defaults |-> TRUE]
             ELSE IF except_result(top.kind) # Unset
                  THEN [task |-> Finish(s, except_result(top.kind)),
                        defaults |-> FALSE]
                  ELSE Unwind(LeaveConn(s), p)

\* for key, value in kwargs.items(): if hasattr(CacheConfig, key): execute
\* from the j-th key on: the next key that is persisted, or, with none left,
\* `await self._load_config()`.
UpdNext(s, j, p) ==
    LET todo == { k \in j .. Len(s.batch) : hasattr_CacheConfig(s.batch[k].key) }
    IN  IF todo # {}
        THEN [s EXCEPT !.pc = "upd_exec",
                       !.i = CHOOSE k \in todo : \A m \in todo : k <= m]
        ELSE EnterConn([s EXCEPT !.stack = Append(@, Frame("load")),
                                 !.i = Len(s.batch) + 1],
                       "load_fetch", p)

\* The value config takes in a step whose unwinding is r.
ConfigAfter(r, cfg) == IF r.defaults THEN DefaultConfig ELSE cfg


\* ------------------------------------------------------------------ calls

\* The arguments update_config is called with: kwargs, in order.
KV(key, value) == [key |-> key, value |-> value]

Batches ==
    { << KV("similarity_threshold", "float:50") >>,
      << KV("cache_enabled", "bool:False") >>,
      << KV("max_cache_entries", "int:1") >>,
      << KV("bogus", "str:x") >>,
      << KV("bogus", "str:x"), KV("similarity_threshold", "float:50") >>,
      << KV("model_config", "str:x"), KV("bogus", "str:x") >>,
      << KV("model_config", "str:x"), KV("model_fields", "int:1") >> }

\* A call as it starts: the arguments, and for the properties the policy and
\* the persisted config it started under.
Start(op) ==
    [Idle EXCEPT !.op = op, !.preConfig = config,
                 !.preDb = IF op = "update" THEN dbConfig ELSE NoRows]

\* Tasks start their calls in the order of their numbers (the tasks are
\* interchangeable until they start).
MayStart(t) == \A u \in Tasks : u < t => tasks[u].pc # "idle"

\* QueryCacheManager.check_cache(rephrased_query_embedding, similarity_threshold)
\* up to its first await.
check_cache(t, q, o) ==
    /\ tasks[t].pc = "idle"
    /\ MayStart(t)
    /\ LET s0 == [Start("check") EXCEPT !.emb = q, !.ovr = o]
       IN  tasks' =
             [tasks EXCEPT ![t] =
                IF Gated(config)
                THEN Finish(Start("check"), None)
                ELSE EnterConn([s0 EXCEPT !.threshold = Threshold(o, config),
                                          !.stack = << Frame("check") >>],
                               "cc_search", pool)]
    /\ UNCHANGED << pairs, pool, nextPool, config, dbConfig, entries, tick, failures >>

\* QueryCacheManager.add_to_cache(..., rephrased_query_embedding) up to its
\* first await.
add_to_cache(t, q) ==
    /\ tasks[t].pc = "idle"
    /\ MayStart(t)
    /\ LET s0 == [Start("add") EXCEPT !.emb = q]
       IN  tasks' =
             [tasks EXCEPT ![t] =
                IF Gated(config)
                THEN Finish(Start("add"), None)
                ELSE EnterConn([s0 EXCEPT !.stack = << Frame("add") >>],
                               "add_insert", pool)]
    /\ UNCHANGED << pairs, pool, nextPool, config, dbConfig, entries, tick, failures >>

\* process_query_with_cache(..., rephrased_query_embedding, ...,
\* llm_processor_func) up to its first await: check_cache is called with the
\* embedding and no threshold of the caller's.
process_query_with_cache(t, q) ==
    /\ tasks[t].pc = "idle"
    /\ MayStart(t)
    /\ LET s0 == [Start("process") EXCEPT
                    !.emb = q,
                    !.stack = << Frame("process"), Frame("check") >>]
       IN  tasks' =
             [tasks EXCEPT ![t] =
                IF Gated(config)
                THEN Finish(s0, None)
                ELSE EnterConn([s0 EXCEPT !.threshold =
                                             Threshold(NoOverride, config)],
                               "cc_search", pool)]
    /\ UNCHANGED << pairs, pool, nextPool, config, dbConfig, entries, tick, failures >>

\* process_query_with_cache: the await of llm_processor_func ends.  It
\* raises, and the exception leaves process_query_with_cache, which has no
\* except clause; or it returns, and add_to_cache is called with the
\* embedding and runs to its first await.
llm_processor_func(t, returns) ==
    LET s == tasks[t]
        s1 == [s EXCEPT !.adds = @ + 1, !.stack = Append(@, Frame("add"))]
    IN  /\ s.pc = "llm"
        /\ tasks' =
             [tasks EXCEPT ![t] =
                IF ~returns
                THEN Unwind(s, pool).task
                ELSE IF Gated(config)
                     THEN Finish(s1, None)
                     ELSE EnterConn(s1, "add_insert", pool)]
        /\ UNCHANGED << pairs, pool, nextPool, config, dbConfig, entries, tick,
                        failures >>

\* QueryCacheManager.update_config(**kwargs) up to its first await.
update_config(t, b) ==
    /\ tasks[t].pc = "idle"
    /\ MayStart(t)
    /\ tasks' =
         [tasks EXCEPT ![t] =
            EnterConn([Start("update") EXCEPT !.batch = b,
                                              !.stack = << Frame("update") >>],
                      "upd_loop", pool)]
    /\ UNCHANGED << pairs, pool, nextPool, config, dbConfig, entries, tick, failures >>

\* QueryCacheManager.initialize() called by the application (initialize_cache)
\* up to its first await.
initialize(t) ==
    /\ tasks[t].pc = "idle"
    /\ MayStart(t)
    /\ tasks' =
         [tasks EXCEPT ![t] =
            IF pool # NoPool
            THEN Finish(Start("initialize"), Returned("ok"))
            ELSE [Start("initialize") EXCEPT !.stack = << Frame("init") >>,
                                             !.pc = "create_pool"]]
    /\ UNCHANGED << pairs, pool, nextPool, config, dbConfig, entries, tick, failures >>

\* ------------------------------------------------------------------ steps

\* initialize: self._pool = await asyncpg.create_pool(...) completes, and
\* `await self._load_config()` runs to its first await.
create_pool(t) ==
    /\ tasks[t].pc = "create_pool"
    /\ pool' = nextPool
    /\ nextPool' = nextPool + 1
    /\ tasks' =
         [tasks EXCEPT ![t] =
            EnterConn([@ EXCEPT !.stack = Append(@, Frame("load"))],
                      "load_fetch", nextPool)]
    /\ UNCHANGED << pairs, config, dbConfig, entries, tick, failures >>

\* get_connection: `async with self._pool.acquire() as conn` yields a
\* connection of the pool, which has one free; the body of the caller's
\* `async with` runs to its first await.
acquire(t) ==
    LET s == tasks[t]
        s1 == [s EXCEPT !.conns = Append(@, s.acq),
                        !.stack[Len(s.stack)].held = TRUE,
                        !.pc = Last(s.stack).ret]
    IN  /\ s.pc = "acquire"
        /\ Held(s.acq) < PoolSize
        /\ tasks' = [tasks EXCEPT ![t] =
                        IF s1.pc = "upd_loop" THEN UpdNext(s1, 1, pool) ELSE s1]
        /\ UNCHANGED << pairs, pool, nextPool, config, dbConfig, entries, tick,
                        failures >>

\* _load_config: the fetch of the config rows completes; the CacheConfig is
\* built and installed, or a ValueError is caught and CacheConfig() installed;
\* the connection is released and _load_config returns.
load_config(t) ==
    LET s == tasks[t]
        parsed == ParseConfig(dbConfig)
        r == IF parsed = NoConfig
             THEN Unwind(s, pool)
             ELSE LoadReturn(LeaveConn(s), pool)
    IN  /\ s.pc = "load_fetch"
        /\ tasks' = [tasks EXCEPT ![t] = r.task]
        /\ config' = ConfigAfter(r, parsed)
        /\ UNCHANGED << pairs, pool, nextPool, dbConfig, entries, tick,
                        failures >>

\* check_cache resolving its threshold when the search is sent, from the
\* policy live by then, instead of before its first await.
check_cache_search_live_threshold(t) ==
    LET s0 == tasks[t]
        s == [s0 EXCEPT !.threshold = Threshold(s0.ovr, config)]
        cache_row == find_similar_cached_query(entries, s.emb, s.threshold)
    IN  /\ s.pc = "cc_search"
        /\ tasks' =
             [tasks EXCEPT ![t] =
                IF cache_row = NoRow
                THEN Finish(LeaveConn(s), None)
                ELSE [s EXCEPT !.row = cache_row, !.pc = "cc_details"]]
        /\ UNCHANGED << pairs, pool, nextPool, config, dbConfig, entries, tick,
                        failures >>

\* check_cache: the fetchrow of find_similar_cached_query completes, or
\* raises for an embedding of another dimension.
\* if not cache_row: return None
check_cache_search(t) ==
    LET s0 == tasks[t]
        s == [s0 EXCEPT !.reach =
                Matches(entries, s0.emb,
                        EffectiveThreshold(s0.ovr, s0.preConfig)) # {}]
        cache_row == find_similar_cached_query(entries, s.emb, s.threshold)
        raised == [s0 EXCEPT !.failed = TRUE, !.failedAt = "cc_search"]
    IN  /\ s.pc = "cc_search"
        /\ tasks' =
             [tasks EXCEPT ![t] =
                IF ~DimensionOk(s0.emb)
                THEN Unwind(raised, pool).task
                ELSE IF cache_row = NoRow
                     THEN Finish(LeaveConn(s), None)
                     ELSE [s EXCEPT !.row = cache_row, !.pc = "cc_details"]]
        /\ UNCHANGED << pairs, pool, nextPool, config, dbConfig, entries, tick,
                        failures >>

\* check_cache recording the hit before it looks at answer_row.
check_cache_details_hit_first(t, answer) ==
    LET s == [tasks[t] EXCEPT !.answer = answer, !.recorded = TRUE]
        es == record_cache_hit(entries, s.row.id, tick + 1)
    IN  /\ s.pc = "cc_details"
        /\ entries' = es
        /\ tick' = tick + 1
        /\ tasks' =
             [tasks EXCEPT ![t] =
                IF answer = "none"
                THEN Finish(LeaveConn(s), None)
                ELSE Finish(LeaveConn([s EXCEPT !.newCount = es[s.row.id].hits]),
                            CacheHit(s.row))]
        /\ UNCHANGED << pairs, pool, nextPool, config, dbConfig, failures >>

\* check_cache: the fetchrow of get_cached_answer_details completes, with the
\* messages of the entry or with no row.  if not answer_row: return None
check_cache_details(t, answer) ==
    LET s == [tasks[t] EXCEPT !.answer = answer]
    IN  /\ s.pc = "cc_details"
        /\ tasks' =
             [tasks EXCEPT ![t] =
                IF answer = "none"
                THEN Finish(LeaveConn(s), None)
                ELSE [s EXCEPT !.pc = "cc_record"]]
        /\ UNCHANGED << pairs, pool, nextPool, config, dbConfig, entries, tick,
                        failures >>

\* check_cache writing back the count it read plus one, instead of having the
\* store increment it.
check_cache_record_read_modify_write(t) ==
    LET s == tasks[t]
        id == s.row.id
    IN  /\ s.pc = "cc_record"
        /\ entries' = [entries EXCEPT ![id].hits = s.row.hits + 1,
                                      ![id].lastHit = tick + 1]
        /\ tick' = tick + 1
        /\ tasks' =
             [tasks EXCEPT ![t] =
                Finish(LeaveConn([s EXCEPT !.recorded = TRUE,
                                           !.newCount = s.row.hits + 1]),
                       CacheHit(s.row))]
        /\ UNCHANGED << pairs, pool, nextPool, config, dbConfig, failures >>

\* check_cache returning its CacheHit whether or not the statement that
\* records the hit went through.
check_cache_record_ignoring_failure(t) ==
    LET s == tasks[t]
        id == s.row.id
        es == IF EntryGone(entries, id)
              THEN entries
              ELSE record_cache_hit(entries, id, tick + 1)
    IN  /\ s.pc = "cc_record"
        /\ entries' = es
        /\ tick' = IF EntryGone(entries, id) THEN tick ELSE tick + 1
        /\ tasks' =
             [tasks EXCEPT ![t] =
                Finish(LeaveConn([s EXCEPT !.recorded = ~EntryGone(entries, id),
                                           !.newCount = es[id].hits]),
                       CacheHit(s.row))]
        /\ UNCHANGED << pairs, pool, nextPool, config, dbConfig, failures >>

\* check_cache: the execute of record_cache_hit completes and the CacheHit is
\* returned, cache_hits being the count the search had read; or the execute
\* raises, the entry being gone, and the except clause returns None.
check_cache_record(t) ==
    LET s == tasks[t]
        id == s.row.id
        es == record_cache_hit(entries, id, tick + 1)
        raised == [s EXCEPT !.failed = TRUE, !.failedAt = "cc_record"]
    IN  /\ s.pc = "cc_record"
        /\ entries' = IF EntryGone(entries, id) THEN entries ELSE es
        /\ tick' = IF EntryGone(entries, id) THEN tick ELSE tick + 1
        /\ tasks' =
             [tasks EXCEPT ![t] =
                IF EntryGone(entries, id)
                THEN Unwind(raised, pool).task
                ELSE Finish(LeaveConn([s EXCEPT !.recorded = TRUE,
                                                !.newCount = es[id].hits]),
                            CacheHit(s.row))]
        /\ UNCHANGED << pairs, pool, nextPool, config, dbConfig, failures >>

\* check_cache: the statement of record_cache_hit takes effect in the store
\* (it is committed as it ends, no transaction being open) and the call then
\* raises before it returns: the reply is lost with the connection, or the
\* release of the connection on leaving the `async with` fails.  The except
\* clause returns None.
check_cache_record_raises_late(t) ==
    LET s == tasks[t]
        id == s.row.id
        raised == [s EXCEPT !.failed = TRUE, !.failedAt = "cc_record",
                            !.recorded = TRUE]
    IN  /\ s.pc = "cc_record"
        /\ ~EntryGone(entries, id)
        /\ failures < MaxFailures
        /\ failures' = failures + 1
        /\ entries' = record_cache_hit(entries, id, tick + 1)
        /\ tick' = tick + 1
        /\ tasks' = [tasks EXCEPT ![t] = Unwind(raised, pool).task]
        /\ UNCHANGED << pairs, pool, nextPool, config, dbConfig >>

\* add_to_cache answering with the entry the store already holds for the
\* embedding instead of inserting another.
add_to_cache_insert_deduplicating(t) ==
    LET s == tasks[t]
        same == { i \in Ids(entries) : entries[i].alive /\ entries[i].emb = s.emb }
        es == IF same = {} THEN add_cache_entry(entries, s.emb) ELSE entries
        id == IF same = {} THEN Len(es) ELSE CHOOSE i \in same : TRUE
    IN  /\ s.pc = "add_insert"
        /\ entries' = es
        /\ tasks' = [tasks EXCEPT ![t] = Finish(LeaveConn(s), EntryId(id))]
        /\ UNCHANGED << pairs, pool, nextPool, config, dbConfig, tick,
                        failures >>

\* add_to_cache: the fetchval of add_cache_entry completes, or raises for an
\* embedding of another dimension.
\* return str(cache_id) if cache_id else None
add_to_cache_insert(t) ==
    LET s == tasks[t]
        es == add_cache_entry(entries, s.emb)
        raised == [s EXCEPT !.failed = TRUE, !.failedAt = "add_insert"]
    IN  /\ s.pc = "add_insert"
        /\ entries' = IF DimensionOk(s.emb) THEN es ELSE entries
        /\ tasks' =
             [tasks EXCEPT ![t] =
                IF DimensionOk(s.emb)
                THEN Finish(LeaveConn(s), EntryId(Len(es)))
                ELSE Unwind(raised, pool).task]
        /\ UNCHANGED << pairs, pool, nextPool, config, dbConfig, tick, failures >>

\* update_config: the INSERT ... ON CONFLICT of one key completes (its own
\* statement, committed as it ends); the loop goes on to the next key.
update_config_execute(t) ==
    LET s == tasks[t]
        kv == s.batch[s.i]
    IN  /\ s.pc = "upd_exec"
        /\ dbConfig' = [dbConfig EXCEPT ![kv.key] = str(kv.value)]
        /\ tasks' = [tasks EXCEPT ![t] = UpdNext(s, s.i + 1, pool)]
        /\ UNCHANGED << pairs, pool, nextPool, config, entries, tick, failures >>

\* QueryCacheManager.get_cache_stats() up to its first await.
get_cache_stats(t) ==
    /\ tasks[t].pc = "idle"
    /\ MayStart(t)
    /\ tasks' =
         [tasks EXCEPT ![t] =
            EnterConn([Start("stats") EXCEPT !.stack = << Frame("stats") >>],
                      "stats_fetch", pool)]
    /\ UNCHANGED << pairs, pool, nextPool, config, dbConfig, entries, tick,
                    failures >>

\* get_cache_stats: the fetchrow of the aggregate completes.
\* return dict(stats) if stats else {}
get_cache_stats_fetch(t) ==
    LET s == tasks[t]
    IN  /\ s.pc = "stats_fetch"
        /\ tasks' = [tasks EXCEPT ![t] = Finish(LeaveConn(s), Stats(entries))]
        /\ UNCHANGED << pairs, pool, nextPool, config, dbConfig, entries, tick,
                        failures >>

\* QueryCacheManager.cleanup_cache() up to its first await.
cleanup_cache(t) ==
    /\ tasks[t].pc = "idle"
    /\ MayStart(t)
    /\ tasks' =
         [tasks EXCEPT ![t] =
            EnterConn([Start("cleanup") EXCEPT !.stack = << Frame("cleanup") >>],
                      "cl_fetch", pool)]
    /\ UNCHANGED << pairs, pool, nextPool, config, dbConfig, entries, tick,
                    failures >>

\* cleanup_cache dropping the count the statement returned.
cleanup_cache_fetch_count_dropped(t) ==
    LET s == tasks[t]
        r == askwealth_cleanup_cache(entries, PersistedMax(dbConfig))
    IN  /\ s.pc = "cl_fetch"
        /\ entries' = r.entries
        /\ tasks' =
             [tasks EXCEPT ![t] =
                Finish(LeaveConn([s EXCEPT !.preEntries = entries]), Count(0))]
        /\ UNCHANGED << pairs, pool, nextPool, config, dbConfig, tick,
                        failures >>

\* cleanup_cache: the fetchval of askwealth.cleanup_cache() completes (one
\* statement), or raises on a max_cache_entries row that is no integer.
\* return deleted_count or 0
cleanup_cache_fetch(t) ==
    LET s == tasks[t]
        max == PersistedMax(dbConfig)
        r == askwealth_cleanup_cache(entries, max)
        raised == [s EXCEPT !.failed = TRUE, !.failedAt = "cl_fetch"]
    IN  /\ s.pc = "cl_fetch"
        /\ entries' = IF max = ParseError THEN entries ELSE r.entries
        /\ tasks' =
             [tasks EXCEPT ![t] =
                IF max = ParseError
                THEN Unwind(raised, pool).task
                ELSE Finish(LeaveConn([s EXCEPT !.preEntries = entries]),
                            Count(r.count))]
        /\ UNCHANGED << pairs, pool, nextPool, config, dbConfig, tick,
                        failures >>

\* QueryCacheManager.populate_from_existing() up to its first await.
populate_from_existing(t) ==
    /\ tasks[t].pc = "idle"
    /\ MayStart(t)
    /\ tasks' =
         [tasks EXCEPT ![t] =
            EnterConn([Start("populate") EXCEPT
                          !.stack = << Frame("populate") >>],
                      "pop_fetch", pool)]
    /\ UNCHANGED << pairs, pool, nextPool, config, dbConfig, entries, tick,
                    failures >>

\* populate_from_existing: the fetchval of
\* askwealth.populate_cache_from_existing() completes (one statement).
\* return populated_count or 0
populate_from_existing_fetch(t) ==
    LET s == tasks[t]
        r == askwealth_populate_cache_from_existing(entries, pairs)
    IN  /\ s.pc = "pop_fetch"
        /\ entries' = r.entries
        /\ tasks' =
             [tasks EXCEPT ![t] =
                Finish(LeaveConn([s EXCEPT !.preEntries = entries]),
                       Count(r.count))]
        /\ UNCHANGED << pairs, pool, nextPool, config, dbConfig, tick,
                        failures >>

\* CacheSetup.populate_cache() of setup_cache.py, run by the operator: up to
\* `await asyncpg.connect(self.database_url)`, a connection of its own.
populate_cache(t) ==
    /\ tasks[t].pc = "idle"
    /\ MayStart(t)
    /\ tasks' =
         [tasks EXCEPT ![t] =
            [Start("setup_populate") EXCEPT
                !.stack = << Frame("setup_populate") >>, !.pc = "sp_connect"]]
    /\ UNCHANGED << pairs, pool, nextPool, config, dbConfig, entries, tick,
                    failures >>

\* populate_cache: the connect, the count of the pending entries and the
\* close complete in turn; the last returns populated_count or 0.
populate_cache_await(t) ==
    LET s == tasks[t]
    IN  /\ s.pc \in {"sp_connect", "sp_count", "sp_close"}
        /\ tasks' =
             [tasks EXCEPT ![t] =
                CASE s.pc = "sp_connect" -> [s EXCEPT !.pc = "sp_fetch"]
                  [] s.pc = "sp_count" -> [s EXCEPT !.pc = "sp_close"]
                  [] OTHER -> Finish(s, Count(s.newCount))]
        /\ UNCHANGED << pairs, pool, nextPool, config, dbConfig, entries, tick,
                        failures >>

\* populate_cache: the fetchval of askwealth.populate_cache_from_existing()
\* completes.
populate_cache_fetch(t) ==
    LET s == tasks[t]
        r == askwealth_populate_cache_from_existing(entries, pairs)
    IN  /\ s.pc = "sp_fetch"
        /\ entries' = r.entries
        /\ tasks' =
             [tasks EXCEPT ![t] = [s EXCEPT !.preEntries = entries,
                                            !.newCount = r.count,
                                            !.pc = "sp_count"]]
        /\ UNCHANGED << pairs, pool, nextPool, config, dbConfig, tick,
                        failures >>

\* The application stores the Q&A pair of an answered query in the
\* conversation store.
NewPair(p) ==
    /\ p \notin pairs
    /\ pairs' = pairs \cup {p}
    /\ UNCHANGED << pool, nextPool, config, dbConfig, entries, tick, tasks,
                    failures >>

\* The awaits of a store call.
StoreCalls ==
    { "create_pool", "acquire", "load_fetch", "cc_search", "cc_details",
      "cc_record", "add_insert", "upd_exec", "stats_fetch", "cl_fetch",
      "pop_fetch", "sp_connect", "sp_fetch", "sp_count", "sp_close" }

\* The store call a task awaits; the acquire of _load_config's own connection
\* is told from the acquire of the caller's.
Awaited(s) ==
    IF s.pc = "acquire" /\ Last(s.stack).ret = "load_fetch"
    THEN "load_acquire"
    ELSE s.pc

\* The store call a task awaits raises (unreachable, timed out, refused); the
\* statement has no effect.
StoreFails(t) ==
    LET s == tasks[t]
        r == Unwind([s EXCEPT !.failed = TRUE, !.failedAt = Awaited(s)], pool)
    IN  /\ s.pc \in StoreCalls
        /\ failures < MaxFailures
        /\ failures' = failures + 1
        /\ tasks' = [tasks EXCEPT ![t] = r.task]
        /\ config' = ConfigAfter(r, config)
        /\ UNCHANGED << pairs, pool, nextPool, dbConfig, entries, tick >>

\* ---------------------------------------------------------- specification

\* Where the manager is in its life when the tasks start: just constructed
\* (no pool, no config), initialized by initialize_cache at startup, or closed
\* again by close() (the pool gone, the config it had loaded still live).
Phases == {"constructed", "initialized", "closed"}

\* The config a load that meets no store failure leaves live.
Loaded(rows) ==
    IF ParseConfig(rows) = NoConfig THEN DefaultConfig ELSE ParseConfig(rows)

Init ==
    /\ dbConfig \in DbConfigs
    /\ entries \in InitialEntries
    /\ \E phase \in Phases :
         /\ pool = IF phase = "initialized" THEN 1 ELSE NoPool
         /\ nextPool = IF phase = "constructed" THEN 1 ELSE 2
         /\ config = IF phase = "constructed" THEN NoConfig ELSE Loaded(dbConfig)
    /\ tick = 1
    /\ tasks = [t \in Tasks |-> Idle]
    /\ failures = 0
    /\ pairs = InitialPairs

\* The steps every call is made of.
Step(t) ==
    \/ create_pool(t)
    \/ acquire(t)
    \/ load_config(t)
    \/ StoreFails(t)

LookupStep(t) ==
    \/ \E q \in Embeddings, o \in Overrides : check_cache(t, q, o)
    \/ \E q \in Embeddings : add_to_cache(t, q)
    \/ check_cache_search(t)
    \/ \E a \in {"ok", "none"} : check_cache_details(t, a)
    \/ check_cache_record(t)
    \/ add_to_cache_insert(t)

ConfigStep(t) ==
    \/ \E b \in Batches : update_config(t, b)
    \/ update_config_execute(t)

Next == \E t \in Tasks : initialize(t) \/ Step(t) \/ LookupStep(t) \/ ConfigStep(t)

Spec == Init /\ [][Next]_vars

\* The lookups and insertions of the request path, with initialize.
NextLookup == \E t \in Tasks : initialize(t) \/ Step(t) \/ LookupStep(t)

SpecLookup == Init /\ [][NextLookup]_vars

\* The configuration calls, against a database whose cache table is empty.
NextConfig == \E t \in Tasks : initialize(t) \/ Step(t) \/ ConfigStep(t)

InitConfig == Init /\ entries = << >>

SpecConfig == InitConfig /\ [][NextConfig]_vars

\* The lookups and insertions, a failure of the store reaching the caller
\* either before the statement it interrupts took effect or after.
NextHits ==
    \E t \in Tasks :
        \/ initialize(t)
        \/ Step(t)
        \/ LookupStep(t)
        \/ check_cache_record_raises_late(t)

SpecHits == Init /\ [][NextHits]_vars

\* Queries answered through process_query_with_cache.
ProcessStep(t) ==
    \/ \E q \in Embeddings : process_query_with_cache(t, q)
    \/ \E returns \in BOOLEAN : llm_processor_func(t, returns)
    \/ check_cache_search(t)
    \/ \E a \in {"ok", "none"} : check_cache_details(t, a)
    \/ check_cache_record(t)
    \/ add_to_cache_insert(t)

NextProcess == \E t \in Tasks : Step(t) \/ ProcessStep(t)

SpecProcess == Init /\ [][NextProcess]_vars

\* The tables the maintenance calls are run against: three entries with
\* embeddings, two of them never hit; three that were hit beside a backfilled
\* pending one; a single entry.
MaintEntries ==
    { << Entry(2, 0), Entry(1, 3), Entry(1, 0) >>,
      << Entry(1, 3), Entry(2, 1), Entry(1, 1), Pending(1) >>,
      << Entry(1, 0) >> }

\* The embeddings the lookups and insertions that run beside them are handed.
MaintEmbeddings == {2} \cup MisDimensioned

InitMaint ==
    /\ dbConfig \in DbConfigs
    /\ entries \in MaintEntries
    /\ \E phase \in Phases :
         /\ pool = IF phase = "initialized" THEN 1 ELSE NoPool
         /\ nextPool = IF phase = "constructed" THEN 1 ELSE 2
         /\ config = IF phase = "constructed" THEN NoConfig ELSE Loaded(dbConfig)
    /\ tick = 1
    /\ tasks = [t \in Tasks |-> Idle]
    /\ failures = 0
    /\ pairs = InitialPairs

MaintStep(t) ==
    \/ get_cache_stats(t)
    \/ get_cache_stats_fetch(t)
    \/ cleanup_cache(t)
    \/ cleanup_cache_fetch(t)
    \/ populate_from_existing(t)
    \/ populate_from_existing_fetch(t)
    \/ populate_cache(t)
    \/ populate_cache_await(t)
    \/ populate_cache_fetch(t)
    \/ update_config(t, << KV("model_config", "str:x") >>)
    \/ update_config_execute(t)
    \/ \E q \in MaintEmbeddings : check_cache(t, q, NoOverride)
    \/ \E q \in MaintEmbeddings : add_to_cache(t, q)
    \/ check_cache_search(t)
    \/ check_cache_details(t, "ok")
    \/ check_cache_record(t)
    \/ add_to_cache_insert(t)

\* The maintenance calls (stats, cleanup, backfill) beside lookups and
\* insertions, the conversation store growing meanwhile.
NextMaint ==
    \/ \E t \in Tasks : Step(t) \/ MaintStep(t)
    \/ \E p \in 1 .. NumPairs : NewPair(p)

SpecMaint == InitMaint /\ [][NextMaint]_vars

\* ------------------------------------------------------------- properties

True == Returned("True")

False == Returned("False")

Min(S) == CHOOSE x \in S : \A y \in S : x <= y

\* A task is about to start a check_cache or add_to_cache call while the live
\* policy is loaded and has cache_enabled false.
StartsDisabled(t) ==
    /\ tasks[t].pc = "idle"
    /\ tasks'[t].pc # "idle"
    /\ tasks'[t].op \in {"check", "add"}
    /\ config.present
    /\ ~config.enabled

\* C1: a check_cache or add_to_cache call made while the live policy has
\* cache_enabled = false returns None at once, whatever the store holds: the
\* call ends in the step that starts it, holds no connection, awaits nothing,
\* and leaves every entry, hit counter, the pool and the config as they were.
C1_DisabledNoOp ==
    [][\A t \in Tasks :
          StartsDisabled(t) =>
             /\ tasks'[t].pc = "done"
             /\ tasks'[t].res = None
             /\ tasks'[t].conns = << >>
             /\ tasks'[t].stack = << >>
             /\ entries' = entries
             /\ tick' = tick
             /\ pool' = pool
             /\ dbConfig' = dbConfig]_vars

\* C1 happens: a call gated off by the disabled policy has returned None with
\* entries in the store.
C1_Witness ==
    \E t \in Tasks :
        /\ tasks[t].op \in {"check", "add"}
        /\ tasks[t].pc = "done"
        /\ tasks[t].preConfig.present
        /\ ~tasks[t].preConfig.enabled
        /\ tasks[t].res = None
        /\ \E i \in DOMAIN entries : entries[i].emb # NullEmbedding

\* A check_cache call that met no store failure, was not gated off and whose
\* answer resolution did not come back empty has returned.
CleanCheck(s) ==
    /\ s.op = "check"
    /\ s.pc = "done"
    /\ ~s.failed
    /\ ~Gated(s.preConfig)
    /\ s.answer # "none"

\* C2 (as claimed): with the cache enabled and no store failure, check_cache
\* returns a CacheHit only for an entry with an embedding whose score reaches
\* the effective threshold (the override if given, else the policy's), and
\* returns None exactly when no such entry reached it when the search ran.
C2_ThresholdGate ==
    \A t \in Tasks :
        LET s == tasks[t]
            eff == EffectiveThreshold(s.ovr, s.preConfig)
        IN  CleanCheck(s) =>
              /\ s.res.kind = "CacheHit" =>
                    /\ entries[s.res.id].emb # NullEmbedding
                    /\ Sim(s.emb, entries[s.res.id].emb) >= eff
              /\ (s.res = None) <=> ~s.reach

\* C3 (as claimed): the threshold a check_cache call hands to the similarity
\* search is the caller's override whenever one is given, 0 included, and the
\* live policy's similarity_threshold only when none is given.
C3_OverrideWins ==
    \A t \in Tasks :
        LET s == tasks[t]
        IN  (s.op = "check" /\ s.pc = "cc_search") =>
               s.threshold = EffectiveThreshold(s.ovr, s.preConfig)

\* C4: a check_cache call whose search matched an entry but whose answer
\* resolution returned no row or failed returns None without having recorded a
\* hit, and a call records a hit only after its resolution returned the answer;
\* a step that ends such a call leaves the matched entry's count and last-hit
\* time as they were.
C4_NoHitWithoutAnswer ==
    [][\A t \in Tasks :
          LET s == tasks'[t]
          IN  /\ (s.op = "check" /\ s.pc = "done" /\ s.row.id # 0
                    /\ s.answer # "ok") =>
                     /\ s.res = None
                     /\ ~s.recorded
                     /\ tasks[t].pc # "done" => entries'[s.row.id] = entries[s.row.id]
              /\ s.recorded => s.answer = "ok"]_vars

\* C4 happens: a call matched an entry, its resolution returned no row, and it
\* returned None; another one failed in the resolution.
C4_Witness ==
    \E t \in Tasks :
        /\ tasks[t].op = "check"
        /\ tasks[t].pc = "done"
        /\ tasks[t].row.id # 0
        /\ tasks[t].answer = "none"
        /\ tasks[t].res = None
        /\ entries[tasks[t].row.id].hits = tasks[t].row.hits

\* C5 (as claimed): the cache_hits of every CacheHit returned is the count the
\* entry had immediately before this call's increment: the count right after
\* the increment is cache_hits + 1.
C5_PreIncrementCount ==
    \A t \in Tasks :
        LET s == tasks[t]
        IN  (s.pc = "done" /\ s.res.kind = "CacheHit") => s.newCount = s.res.hits + 1

\* The calls that returned a CacheHit for entry e, and the count the first of
\* them read.
HitCalls(e) ==
    { t \in Tasks : /\ tasks[t].pc = "done"
                    /\ tasks[t].res.kind = "CacheHit"
                    /\ tasks[t].res.id = e }

InFlightOn(e) ==
    \E t \in Tasks : tasks[t].pc \in {"cc_details", "cc_record"} /\ tasks[t].row.id = e

\* C6: once the check_cache calls that resolved to one entry have all returned
\* their CacheHit, in whatever way they were interleaved, the entry's hit count
\* is the count before the first of them plus their number.
C6_NoLostIncrement ==
    \A e \in DOMAIN entries :
        (HitCalls(e) # {} /\ ~InFlightOn(e)) =>
            entries[e].hits =
                Min({ tasks[t].res.hits : t \in HitCalls(e) }) + Cardinality(HitCalls(e))

\* C6 happens: two calls that overlapped (both read the same count before
\* either recorded its hit) returned a CacheHit for the same entry.
C6_Witness ==
    \E e \in DOMAIN entries :
        \E t, u \in HitCalls(e) :
            /\ t # u
            /\ tasks[t].res.hits = tasks[u].res.hits
            /\ entries[e].hits = tasks[t].res.hits + 2

\* The store calls of check_cache and add_to_cache themselves (the calls of a
\* config load that runs inside them are _load_config's).
OwnStoreCalls ==
    { "create_pool", "acquire", "cc_search", "cc_details", "cc_record",
      "add_insert" }

\* C7: check_cache and add_to_cache never raise to the caller, and a call one
\* of whose own store calls failed (pool creation, connection acquisition,
\* search, resolution, hit recording, insertion) returns None.
C7_NeverRaises ==
    \A t \in Tasks :
        LET s == tasks[t]
        IN  (s.op \in {"check", "add"} /\ s.pc = "done") =>
               /\ s.res # Raised
               /\ s.failedAt \in OwnStoreCalls => s.res = None

\* C7 happens: the pool creation of a check_cache or add_to_cache call failed
\* and the call returned None.
C7_Witness ==
    \E t \in Tasks :
        /\ tasks[t].op \in {"check", "add"}
        /\ tasks[t].pc = "done"
        /\ tasks[t].failedAt = "create_pool"
        /\ tasks[t].res = None


\* An update_config call has returned.
UpdateDone(s) == s.op = "update" /\ s.pc = "done"

HasUnknownKey(b) == \E k \in DOMAIN b : b[k].key \in UnknownKeys

\* C8 (as claimed): an update_config call whose batch holds an unknown key
\* reports failure and leaves the persisted config and the live policy as they
\* were when it was called.  (Stated of the calls that met no store failure:
\* the rejection claimed is of the key, not of a failing store.)
C8_UnknownKeyRejected ==
    \A t \in Tasks :
        LET s == tasks[t]
        IN  (UpdateDone(s) /\ ~s.failed /\ HasUnknownKey(s.batch)) =>
               /\ s.res = False
               /\ dbConfig = s.preDb
               /\ config = s.preConfig

\* C9 (as claimed): an update_config call during which the store failed while
\* persisting a key returns False and leaves none of the keys of its batch
\* persisted: each has the value it had when the call was made.
C9_AllOrNothing ==
    \A t \in Tasks :
        LET s == tasks[t]
        IN  (UpdateDone(s) /\ s.failedAt = "upd_exec") =>
               /\ s.res = False
               /\ \A k \in DOMAIN s.batch :
                     s.batch[k].key \in ConfigKeys =>
                        dbConfig[s.batch[k].key] = s.preDb[s.batch[k].key]

\* The live policy has the value for the key.
PolicyHas(cfg, key, value) ==
    /\ cfg.present
    /\ key = "similarity_threshold" => cfg.thr = float(str(value))
    /\ key = "cache_enabled" => cfg.enabled = (lower(str(value)) = "true")
    /\ key = "max_cache_entries" => cfg.max = int(str(value))

\* C10 (as claimed): after update_config(k = v) for one of the three policy
\* keys has returned True, no other update_config having run, the persisted
\* config holds v for k and the live policy has k equal to v.  (Stated of the
\* calls that met no store failure, the reload's included.)
C10_UpdateTakesEffect ==
    \A t \in Tasks :
        LET s == tasks[t]
        IN  ( /\ UpdateDone(s)
              /\ s.res = True
              /\ ~s.failed
              /\ Len(s.batch) = 1
              /\ s.batch[1].key \in FieldKeys
              /\ \A u \in Tasks \ {t} : tasks[u].op # "update" ) =>
               /\ dbConfig[s.batch[1].key] = str(s.batch[1].value)
               /\ PolicyHas(config, s.batch[1].key, s.batch[1].value)

\* The policy spec.md 4.1 has a load produce from the rows: for each key the
\* loaded value, or that key's default when the row is absent or its value
\* is malformed.
PerKeyPolicy(rows) ==
    LET thr == rows["similarity_threshold"]
        max == rows["max_cache_entries"]
    IN  [present |-> TRUE,
         thr |-> IF thr = Absent \/ float(thr) = ParseError
                 THEN DefaultThreshold ELSE float(thr),
         enabled |-> lower(IF rows["cache_enabled"] = Absent
                           THEN "true" ELSE rows["cache_enabled"]) = "true",
         max |-> IF max = Absent \/ int(max) = ParseError
                 THEN DefaultMaxEntries ELSE int(max)]

\* A task's config load reads the rows in this step, no store call failing.
LoadReads(t) ==
    /\ tasks[t].pc = "load_fetch"
    /\ tasks'[t].pc # "load_fetch"
    /\ failures' = failures

\* C11 (as claimed): a config load that reads a malformed value for one key
\* leaves the live policy with the default for that key only and the loaded
\* value for every other key; it never puts the whole policy back to defaults.
C11_PerKeyDefault ==
    [][\A t \in Tasks : LoadReads(t) => config' = PerKeyPolicy(dbConfig)]_vars

\* A task starts a check_cache or add_to_cache call on a manager on which no
\* config load has yet run (self._config is None).
StartsUnloaded(t) ==
    /\ tasks[t].pc = "idle"
    /\ tasks'[t].pc # "idle"
    /\ tasks'[t].op \in {"check", "add"}
    /\ ~config.present

\* The config load of a task fails in this step (its acquire or its fetch).
LoadFails(t) ==
    /\ Awaited(tasks[t]) \in {"load_acquire", "load_fetch"}
    /\ failures' > failures

\* C12 (as claimed): a manager on which no config load has succeeded operates
\* under the default policy: a check_cache or add_to_cache call made while no
\* load has run goes on to its store calls (the search, the insert) instead
\* of returning None without trying, and a load that fails leaves the default
\* policy live.
C12_FailOpenDefaults ==
    [][\A t \in Tasks :
          /\ StartsUnloaded(t) => tasks'[t].pc # "done"
          /\ LoadFails(t) => config' = DefaultConfig]_vars

\* The cleanup statement of a task completes in this step.
CleanupCompletes(t) ==
    /\ tasks[t].pc = "cl_fetch"
    /\ tasks'[t].pc = "done"
    /\ ~tasks'[t].failed

\* The entries a step deletes.
Removed == { i \in Ids(entries) : entries[i].alive /\ ~entries'[i].alive }

PopulateCompletes(t) ==
    /\ tasks[t].pc \in {"pop_fetch", "sp_fetch"}
    /\ tasks'[t].pc # tasks[t].pc
    /\ ~tasks'[t].failed

\* The entries backfilled from pair p.
BackfilledFrom(es, p) == { i \in Ids(es) : es[i].alive /\ es[i].pair = p }

\* The count a backfill call returned, or is about to return.
Inserted(s) == IF s.op = "populate" THEN s.res ELSE Count(s.newCount)

\* C15: a backfill leaves every historical pair with exactly one entry and
\* returns the number of entries it added; run when every pair has its entry
\* already (as right after a backfill, no new pair having been stored since)
\* it leaves the entries as they are and returns 0; no pair ever has more
\* than one backfilled entry.
C15_PopulateIdempotent ==
    [][/\ \A t \in Tasks :
            PopulateCompletes(t) =>
               /\ \A p \in pairs : Cardinality(BackfilledFrom(entries', p)) = 1
               /\ Inserted(tasks'[t]) = Count(Len(entries') - Len(entries))
               /\ (\A p \in pairs : BackfilledFrom(entries, p) # {}) =>
                     /\ entries' = entries
                     /\ Inserted(tasks'[t]) = Count(0)
       /\ \A p \in pairs' : Cardinality(BackfilledFrom(entries', p)) <= 1]_vars

\* C15 happens: two backfills ran one after the other; the first inserted an
\* entry, the second found the entries the first had left and returned 0.
C15_Witness ==
    \E t, u \in Tasks :
        /\ t # u
        /\ tasks[t].op = "populate" /\ tasks[t].pc = "done"
        /\ tasks[u].op = "populate" /\ tasks[u].pc = "done"
        /\ tasks[t].res.id >= 1
        /\ tasks[u].res = Count(0)
        /\ ~tasks[u].failed
        /\ tasks[u].preEntries = entries
        /\ Len(tasks[t].preEntries) < Len(entries)

\* The insert of an add_to_cache call completes in this step.
AddCompletes(t) ==
    /\ tasks[t].pc = "add_insert"
    /\ tasks'[t].pc = "done"
    /\ ~tasks'[t].failed

\* The add_to_cache calls that returned an identifier.
Added == { t \in Tasks : tasks[t].op = "add" /\ tasks[t].res.kind = "id" }

Alive(es) == { i \in Ids(es) : es[i].alive }

\* C16: a successful add_to_cache creates one new entry, never hit, holding
\* the embedding it was given, and returns its identifier, which no entry had
\* before: the entries there were stay as they are and their number grows by
\* exactly 1.  Nothing is deduplicated: the identifiers any two calls return
\* differ, whatever their embeddings.
C16_AddCreatesEntry ==
    [][\A t \in Tasks :
          AddCompletes(t) =>
             LET id == tasks'[t].res.id
             IN  /\ tasks'[t].res = EntryId(id)
                 /\ id \notin Ids(entries)
                 /\ id \in Alive(entries')
                 /\ entries'[id].hits = 0
                 /\ entries'[id].emb = tasks[t].emb
                 /\ \A i \in Ids(entries) : entries'[i] = entries[i]
                 /\ Cardinality(Alive(entries')) = Cardinality(Alive(entries)) + 1
                 /\ \A u \in Added : tasks[u].res.id # id]_vars

\* C16 happens: two add_to_cache calls for the same embedding returned
\* different identifiers, each of an entry of its own.
C16_Witness ==
    \E t, u \in Added :
        /\ t # u
        /\ tasks[t].emb = tasks[u].emb
        /\ tasks[t].res.id # tasks[u].res.id
        /\ entries[tasks[t].res.id].emb = tasks[t].emb
        /\ entries[tasks[u].res.id].emb = tasks[u].emb

\* The store calls of a maintenance call itself (the calls of a config load
\* that runs inside it are _load_config's, which catches their failure).
OwnMaintCalls ==
    { "create_pool", "acquire", "upd_exec", "cl_fetch", "pop_fetch",
      "sp_connect", "sp_fetch", "sp_count", "sp_close" }

\* C17 (as claimed): a maintenance call that found the store unreachable (one
\* of its own store calls failed) reports it: update_config returns False, and
\* cleanup_cache and populate_from_existing return a value other than the 0
\* of a run that succeeded and removed or inserted nothing.
C17_FailureSignalled ==
    \A t \in Tasks :
        LET s == tasks[t]
        IN  (s.pc = "done" /\ s.failedAt \in OwnMaintCalls) =>
               /\ s.op = "update" => s.res = False
               /\ s.op \in {"cleanup", "populate", "setup_populate"} =>
                     s.res # Count(0)

\* A get_cache_stats call takes a step (starts, or one of its awaits ends).
StatsMoves(t) == tasks'[t] # tasks[t] /\ tasks'[t].op = "stats"

\* The store calls of get_cache_stats itself.
OwnStatsCalls == { "create_pool", "acquire", "stats_fetch" }

\* C18 (as claimed): no step of a get_cache_stats call changes the entries, a
\* hit counter, the persisted config or the live policy, and a call that met
\* a store failure returns {} instead of raising.
C18_StatsReadOnly ==
    [][\A t \in Tasks :
          StatsMoves(t) =>
             /\ entries' = entries
             /\ tick' = tick
             /\ dbConfig' = dbConfig
             /\ config' = config
             /\ tasks'[t].pc = "done" =>
                   /\ tasks'[t].res # Raised
                   /\ tasks'[t].failed => tasks'[t].res = Empty]_vars

\* C18 (as amended): no step of a get_cache_stats call changes the entries, a
\* hit counter or the persisted config; the live policy changes only in the
\* config load of the initialization the call runs when the manager has no
\* pool; the call never raises, and returns {} when one of its own store
\* calls failed.
C18_StatsReadOnlyButInit ==
    [][\A t \in Tasks :
          StatsMoves(t) =>
             /\ entries' = entries
             /\ tick' = tick
             /\ dbConfig' = dbConfig
             /\ config' # config =>
                   Awaited(tasks[t]) \in {"load_acquire", "load_fetch"}
             /\ tasks'[t].pc = "done" =>
                   /\ tasks'[t].res # Raised
                   /\ tasks'[t].failedAt \in OwnStatsCalls =>
                         tasks'[t].res = Empty]_vars

\* C18 happens: a get_cache_stats call on a manager that had no policy yet
\* initialized it and returned the counts of a store that holds entries.
C18_Witness ==
    \E t \in Tasks :
        /\ tasks[t].op = "stats"
        /\ tasks[t].pc = "done"
        /\ ~tasks[t].preConfig.present
        /\ config.present
        /\ tasks[t].res.kind = "stats"
        /\ tasks[t].res.id >= 1

\* A task starts a check_cache call with an embedding of another dimension
\* than the configured one (a call the disabled policy gates off keeps no
\* embedding and returns at once anyway).
StartsMisDimensioned(t) ==
    /\ tasks[t].pc = "idle"
    /\ tasks'[t].op = "check"
    /\ tasks'[t].emb \in MisDimensioned

\* An add_to_cache call with such an embedding takes a step.
AddMisDimensionedMoves(t) ==
    /\ tasks'[t] # tasks[t]
    /\ tasks'[t].op = "add"
    /\ tasks'[t].emb \in MisDimensioned

\* C19 (as claimed): a check_cache call with an embedding whose dimension is
\* not the configured one returns None in the step that starts it, without a
\* connection or any other call to the store, and no step of an add_to_cache
\* call with such an embedding inserts an entry.
C19_DimensionGate ==
    [][\A t \in Tasks :
          /\ StartsMisDimensioned(t) =>
                /\ tasks'[t].pc = "done"
                /\ tasks'[t].res = None
                /\ tasks'[t].stack = << >>
          /\ AddMisDimensionedMoves(t) => entries' = entries]_vars

\* A check_cache call that matched an entry returns in this step, the entry
\* having been deleted since its search.
ReturnsAfterEviction(t) ==
    /\ tasks[t].op = "check"
    /\ tasks[t].pc \in {"cc_details", "cc_record"}
    /\ tasks'[t].pc = "done"
    /\ ~entries[tasks[t].row.id].alive

\* C20: a check_cache call whose matched entry a cleanup deleted after the
\* search and before the hit was recorded returns None, not a CacheHit: the
\* recording fails, no counter changes and no hit is recorded.
C20_EvictedBeforeRecord ==
    [][\A t \in Tasks :
          ReturnsAfterEviction(t) =>
             /\ tasks'[t].res = None
             /\ ~tasks'[t].recorded
             /\ entries' = entries]_vars

\* C20 happens: a cleanup that ran between the search and the hit recording
\* of a check_cache call deleted the matched entry; the recording failed, no
\* store failure being involved, and the call returned None.
C20_Witness ==
    \E t, u \in Tasks :
        /\ tasks[t].op = "check" /\ tasks[t].pc = "done"
        /\ tasks[t].row.id # 0
        /\ tasks[t].answer = "ok"
        /\ tasks[t].failedAt = "cc_record"
        /\ failures = 0
        /\ tasks[t].res = None
        /\ tasks[u].op = "cleanup" /\ tasks[u].pc = "done"
        /\ tasks[t].row.id \in Ids(tasks[u].preEntries)
        /\ tasks[u].preEntries[tasks[t].row.id].alive
        /\ ~entries[tasks[t].row.id].alive

\* The check_cache calls, among the tasks ts, that returned a CacheHit for
\* entry e.
HitsReturned(ts, e) ==
    { t \in Tasks : /\ ts[t].op = "check"
                    /\ ts[t].pc = "done"
                    /\ ts[t].res.kind = "CacheHit"
                    /\ ts[t].res.id = e }

\* C21 (as claimed): the hit count of an entry grows exactly with the
\* check_cache calls that return a CacheHit for it: in every step the count
\* of each entry goes up by the number of calls that return a hit for it in
\* that step, so it is never incremented by a call that ends in None (one that
\* fails after recording the hit included) and never left as it was by a call
\* that returns a hit.
C21_HitCountIsHits ==
    [][\A e \in Ids(entries) :
          entries'[e].hits =
             entries[e].hits + Cardinality(HitsReturned(tasks', e))
                             - Cardinality(HitsReturned(tasks, e))]_vars

\* A call that returned at its gate: it kept no argument and awaited nothing.
GatedOff(s) == s.pc = "done" /\ s.res = None /\ s.emb = 0 /\ ~s.failed

\* The call of a task ran under one policy snapshot, the one live when it was
\* made: it was gated off exactly if that snapshot is absent or disabled, and
\* the threshold of a check_cache call is the one resolved from that snapshot.
OneSnapshot(s) ==
    /\ GatedOff(s) <=> Gated(s.preConfig)
    /\ (s.op = "check" /\ ~GatedOff(s)) =>
          s.threshold = Threshold(s.ovr, s.preConfig)

\* C22: a check_cache or add_to_cache call uses one policy snapshot
\* throughout, whatever config load or update_config runs beside it: the
\* enabled flag it gated on and the threshold it searches with are those of
\* the policy live when the call was made; and the live policy is only ever
\* replaced by a whole policy (the one built from the config rows, or the
\* defaults), never changed in part.
C22_SingleSnapshot ==
    [][/\ \A t \in Tasks :
            tasks'[t].op \in {"check", "add"} => OneSnapshot(tasks'[t])
       /\ config' # config => config' \in {Loaded(dbConfig), DefaultConfig}]_vars

\* C22 happens: the live policy was replaced while a check_cache call was
\* under way, and the call searched with the threshold of the policy it had
\* started under, not the one live at the search.
C22_Witness ==
    \E t \in Tasks :
        /\ tasks[t].op = "check"
        /\ tasks[t].pc \in {"cc_details", "cc_record", "done"}
        /\ tasks[t].row.id # 0
        /\ tasks[t].ovr = NoOverride
        /\ tasks[t].threshold = tasks[t].preConfig.thr
        /\ config.present
        /\ config.thr # tasks[t].preConfig.thr

\* The get_connection frames of a task that have yielded a connection.
RECURSIVE HeldFrames(_)
HeldFrames(stack) ==
    IF stack = << >> THEN 0
    ELSE (IF Last(stack).held THEN 1 ELSE 0) + HeldFrames(Front(stack))

HoldsAndWaits(s, p) ==
    /\ s.pc = "acquire"
    /\ s.acq = p
    /\ CountIn(s.conns, p) >= 1

\* Every connection of pool p is held by a task that waits for another one
\* of them: none of them can go on unless a store call fails.
PoolExhausted(p) ==
    /\ Held(p) = PoolSize
    /\ \A t \in Tasks :
          CountIn(tasks[t].conns, p) >= 1 => HoldsAndWaits(tasks[t], p)

\* C24 (as claimed): update_config calls never exhaust the pool and block
\* each other: no state is reached in which update_config calls hold every
\* connection of the pool while each waits for a second one.
C24_UpdateNeverBlocks ==
    \A p \in 1 .. nextPool :
       ~ (/\ PoolExhausted(p)
          /\ \E t \in Tasks : tasks[t].op = "update" /\ HoldsAndWaits(tasks[t], p))

\* C25 (as claimed): one manager creates at most one pool until it is
\* closed: a pool is created only while the manager has none, so no created
\* pool is overwritten by another one.
C25_OnePool ==
    [][nextPool' # nextPool => pool = NoPool]_vars

\* What one call of process_query_with_cache has done so far agrees with
\* what check_cache returned to it.
ProcessInOrder(s) ==
    /\ s.llm = (IF s.seen.kind = "None" THEN 1 ELSE 0)
    /\ s.adds <= s.llm
    /\ s.adds = 1 => s.pc # "llm"
    /\ s.seen.kind = "CacheHit" =>
          /\ s.pc = "done"
          /\ s.res = CachedResponse("cache", s.seen.id, s.seen.score,
                                    s.seen.hits + 1)
          /\ s.out = s.answer
          /\ s.out # LlmAnswer
    /\ (s.pc = "done" /\ s.seen.kind = "None") =>
          \/ s.res = Raised /\ s.adds = 0
          \/ s.res.kind = "llm" /\ s.adds = 1 /\ s.out = LlmAnswer
    /\ (s.pc = "done" /\ s.res.kind = "cache") => s.seen.kind = "CacheHit"

\* C26: in process_query_with_cache, llm_processor_func is invoked exactly
\* once when check_cache returned Miss and not at all otherwise; add_to_cache
\* is called only after that invocation returned and never on a hit; on a hit
\* the response has source "cache" and the cached answer, on a miss "llm".
C26_PipelineOnMissOnly ==
    \A t \in Tasks : tasks[t].op = "process" => ProcessInOrder(tasks[t])

\* One query is answered by the pipeline and stored, another from the cache.
C26_Witness ==
    \E t, u \in Tasks :
       /\ tasks[t].op = "process" /\ tasks[t].pc = "done"
       /\ tasks[t].res.kind = "llm" /\ tasks[t].res.id # 0
       /\ tasks[u].op = "process" /\ tasks[u].pc = "done"
       /\ tasks[u].res.kind = "cache"

============================================================================
